---- MODULE Spec2Model ----
(***************************************************************************)
(* Model of timebasedcv/timebasedsplit.py: the construction of a           *)
(* TimeBasedSplit, the generator _splits_from_period, the generator        *)
(* TimeBasedSplit.split and the function n_splits_of.                      *)
(*                                                                         *)
(* Timestamps are whole days counted from an arbitrary origin; a timedelta *)
(* is a signed number of days.  Of the seven frequency units the two that  *)
(* are whole days, days and weeks, are modelled.  An optional argument is  *)
(* <<>> when it is None and <<v>> when it is the value v.  Every modelled  *)
(* timestamp is a date-like object, which Python always treats as true, so *)
(* x or y on an optional timestamp takes y exactly when x is None.         *)
(* The four sizes handed to the constructor are ints, so the type test of  *)
(* _validate_arguments passes.  split is handed one array, the positions   *)
(* of the samples of the series, so its shape tests pass.                  *)
(*                                                                         *)
(* pc follows one instance: start, then ready or config_error; a           *)
(* generator is created, then suspended at its yield, exhausted or raised; *)
(* n_splits_of has then returned or count_raised.  generators holds the    *)
(* generators of _splits_from_period that are consumed side by side, each  *)
(* with its own arguments, locals and position.                            *)
(***************************************************************************)
EXTENDS Integers, Sequences, FiniteSets, TLC

VARIABLES pc, self, stride_arg, op, args, frame, emitted, yielded, count_args, n_splits, error,
          generators

vars == <<pc, self, stride_arg, op, args, frame, emitted, yielded, count_args, n_splits, error,
         generators>>

(* ---------------------------------------------------------------- bounds *)
MaxSize == 2
MaxGap == 1
MaxStart == 1
MaxTime == 14

(* ------------------------------------------------------------ the inputs *)
None == <<>>
Some(v) == <<v>>
Val(o) == o[1]

FrequencyInputs == {"days", "weeks", "months"}
WindowInputs == {"rolling", "expanding", "sliding"}
ModeInputs == {"forward", "backward", "random"}
SizeInputs == 0..MaxSize
GapInputs == (-1)..MaxGap
StrideInputs == {None} \cup {Some(s) : s \in (-1)..MaxSize}
StartInputs == 0..MaxStart
EndInputs == 0..MaxTime
SampleTimes == {2, MaxTime - 3}
SeriesInputs == {<<a, b>> : a \in SampleTimes, b \in SampleTimes}
(* split is given no end_dt, the earliest end, an end before the last sample
   or the latest end. *)
SplitEndInputs == {MaxStart, MaxTime - 5, MaxTime}

(* The sizes of the examples of the TimeBasedSplit docstring. *)
ExampleTrainSize == 4
ExampleForecastHorizon == 3
ExampleGap == 2
ExampleStride == 2

(* --------------------------------------------------- module-level values *)
frequency_values == {"days", "weeks"}
window_values == {"rolling", "expanding"}
mode_values == {"forward", "backward"}

NoFrame == [time_start |-> 0, time_end |-> 0,
            train_delta |-> 0, forecast_delta |-> 0, gap_delta |-> 0, stride_delta |-> 0,
            train_start |-> 0, train_end |-> 0, forecast_start |-> 0, forecast_end |-> 0]
NoSelf == [frequency_ |-> "", train_size_ |-> 0, forecast_horizon_ |-> 0, gap_ |-> 0,
           stride_ |-> 0, window_ |-> "", mode_ |-> ""]
NoArgs == [time_series |-> None, start_dt |-> None, end_dt |-> None]

(* ------------------------------------------------- _CoreTimeBasedSplit *)
(* Mutant: the stride falls back to one unit. *)
StrideOr_One(stride, forecast_horizon) ==
    IF stride = None \/ stride = Some(0) THEN 1 ELSE Val(stride)

(* stride or forecast_horizon: None and 0 are false. *)
StrideOr(stride, forecast_horizon) ==
    IF stride = None \/ stride = Some(0) THEN forecast_horizon ELSE Val(stride)

NewSelf(frequency, train_size, forecast_horizon, gap, stride, window, mode) ==
    [frequency_ |-> frequency,
     train_size_ |-> train_size,
     forecast_horizon_ |-> forecast_horizon,
     gap_ |-> gap,
     stride_ |-> StrideOr(stride, forecast_horizon),
     window_ |-> window,
     mode_ |-> mode]

(* Mutant: the lower bounds are tested with any in place of all. *)
validate_arguments_AnyBound(s) ==
    IF s.frequency_ \notin frequency_values THEN "ValueError: frequency"
    ELSE IF s.window_ \notin window_values THEN "ValueError: window"
    ELSE IF s.mode_ \notin mode_values THEN "ValueError: mode"
    ELSE IF ~(s.train_size_ >= 1 \/ s.forecast_horizon_ >= 1 \/ s.gap_ >= 0 \/ s.stride_ >= 1)
         THEN "ValueError: lower bounds"
    ELSE ""

(* The error _validate_arguments raises, the empty string when it raises none. *)
validate_arguments(s) ==
    IF s.frequency_ \notin frequency_values THEN "ValueError: frequency"
    ELSE IF s.window_ \notin window_values THEN "ValueError: window"
    ELSE IF s.mode_ \notin mode_values THEN "ValueError: mode"
    ELSE IF ~(s.train_size_ >= 1 /\ s.forecast_horizon_ >= 1 /\ s.gap_ >= 0 /\ s.stride_ >= 1)
         THEN "ValueError: lower bounds"
    ELSE ""

(* A timedelta of n units of the frequency, in days. *)
timedelta(frequency, n) ==
    CASE frequency = "days" -> n
      [] frequency = "weeks" -> 7 * n

train_delta(s) == timedelta(s.frequency_, s.train_size_)
forecast_delta(s) == timedelta(s.frequency_, s.forecast_horizon_)
gap_delta(s) == timedelta(s.frequency_, s.gap_)

(* Mutant: stride_delta is built from train_size_. *)
stride_delta_FromTrainSize(s) == timedelta(s.frequency_, s.train_size_)

stride_delta(s) == timedelta(s.frequency_, s.stride_)

SplitState(train_start, train_end, forecast_start, forecast_end) ==
    [train_start |-> train_start, train_end |-> train_end,
     forecast_start |-> forecast_start, forecast_end |-> forecast_end]

(* The locals of _splits_from_period. *)
Locals(time_start, time_end, td, fd, gd, sd, train_start, train_end, forecast_start, forecast_end) ==
    [time_start |-> time_start, time_end |-> time_end,
     train_delta |-> td, forecast_delta |-> fd, gap_delta |-> gd, stride_delta |-> sd,
     train_start |-> train_start, train_end |-> train_end,
     forecast_start |-> forecast_start, forecast_end |-> forecast_end]

(* Mutant: the forward branch subtracts train_delta from time_start. *)
ForwardStart_TrainDeltaSubtracted(s, time_start, time_end) ==
    LET td == train_delta(s)
        fd == forecast_delta(s)
        gd == gap_delta(s)
        sd == stride_delta(s)
        train_start == time_start
        train_end == time_start - td
        forecast_start == train_end + gd
        forecast_end == forecast_start + fd
    IN Locals(time_start, time_end, td, fd, gd, sd,
              train_start, train_end, forecast_start, forecast_end)

(* The branch mode_ = forward. *)
ForwardStart(s, time_start, time_end) ==
    LET td == train_delta(s)
        fd == forecast_delta(s)
        gd == gap_delta(s)
        sd == stride_delta(s)
        train_start == time_start
        train_end == time_start + td
        forecast_start == train_end + gd
        forecast_end == forecast_start + fd
    IN Locals(time_start, time_end, td, fd, gd, sd,
              train_start, train_end, forecast_start, forecast_end)

(* Mutant: the backward branch forgets to negate gap_delta. *)
BackwardStart_GapNotNegated(s, time_start, time_end) ==
    LET td == -train_delta(s)
        fd == -forecast_delta(s)
        gd == gap_delta(s)
        sd == -stride_delta(s)
        forecast_end == time_end
        forecast_start == forecast_end + fd
        train_end == forecast_start + gd
        train_start == IF s.window_ = "rolling" THEN train_end + td ELSE time_start
    IN Locals(time_start, time_end, td, fd, gd, sd,
              train_start, train_end, forecast_start, forecast_end)

(* Mutant: the backward branch forgets to negate stride_delta. *)
BackwardStart_StrideNotNegated(s, time_start, time_end) ==
    LET td == -train_delta(s)
        fd == -forecast_delta(s)
        gd == -gap_delta(s)
        sd == stride_delta(s)
        forecast_end == time_end
        forecast_start == forecast_end + fd
        train_end == forecast_start + gd
        train_start == IF s.window_ = "rolling" THEN train_end + td ELSE time_start
    IN Locals(time_start, time_end, td, fd, gd, sd,
              train_start, train_end, forecast_start, forecast_end)

(* The branch mode_ = backward. *)
BackwardStart(s, time_start, time_end) ==
    LET td == -train_delta(s)
        fd == -forecast_delta(s)
        gd == -gap_delta(s)
        sd == -stride_delta(s)
        forecast_end == time_end
        forecast_start == forecast_end + fd
        train_end == forecast_start + gd
        train_start == IF s.window_ = "rolling" THEN train_end + td ELSE time_start
    IN Locals(time_start, time_end, td, fd, gd, sd,
              train_start, train_end, forecast_start, forecast_end)

(* The locals of _splits_from_period when it first reaches the while loop. *)
EnterLoop(s, time_start, time_end) ==
    IF s.mode_ = "forward"
    THEN ForwardStart(s, time_start, time_end)
    ELSE BackwardStart(s, time_start, time_end)

(* Mutant: the span condition adds train_delta on the wrong side. *)
LoopCondition_SpanGuardWrongSign(f) ==
    /\ f.forecast_start <= f.time_end
    /\ f.train_start >= f.time_start
    /\ f.train_start <= f.train_end - f.train_delta

(* Mutant: the loop does not test forecast_start against time_end. *)
LoopCondition_NoRangeEnd(f) ==
    /\ f.train_start >= f.time_start
    /\ f.train_start <= f.train_end + f.train_delta

(* Mutant: the loop stops as soon as forecast_start reaches time_end. *)
LoopCondition_StrictForecastStart(f) ==
    /\ f.forecast_start < f.time_end
    /\ f.train_start >= f.time_start
    /\ f.train_start <= f.train_end + f.train_delta

(* The condition of the while loop. *)
LoopCondition(f) ==
    /\ f.forecast_start <= f.time_end
    /\ f.train_start >= f.time_start
    /\ f.train_start <= f.train_end + f.train_delta

(* The split the loop body yields. *)
Current(f) == SplitState(f.train_start, f.train_end, f.forecast_start, f.forecast_end)

(* Mutant: train_start is never advanced, whatever the window. *)
UpdateState_NeverRolls(s, f) ==
    [f EXCEPT !.train_end = f.train_end + f.stride_delta,
              !.forecast_start = f.forecast_start + f.stride_delta,
              !.forecast_end = f.forecast_end + f.stride_delta]

(* Mutant: train_start is advanced whatever the window. *)
UpdateState_AlwaysRolls(s, f) ==
    [f EXCEPT !.train_start = f.train_start + f.stride_delta,
              !.train_end = f.train_end + f.stride_delta,
              !.forecast_start = f.forecast_start + f.stride_delta,
              !.forecast_end = f.forecast_end + f.stride_delta]

(* Mutant: forecast_end is advanced by forecast_delta. *)
UpdateState_ForecastEndByHorizon(s, f) ==
    [f EXCEPT !.train_start = IF s.window_ = "rolling" THEN f.train_start + f.stride_delta
                              ELSE f.train_start,
              !.train_end = f.train_end + f.stride_delta,
              !.forecast_start = f.forecast_start + f.stride_delta,
              !.forecast_end = f.forecast_end + f.forecast_delta]

(* Update state values *)
UpdateState(s, f) ==
    [f EXCEPT !.train_start = IF s.window_ = "rolling" THEN f.train_start + f.stride_delta
                              ELSE f.train_start,
              !.train_end = f.train_end + f.stride_delta,
              !.forecast_start = f.forecast_start + f.stride_delta,
              !.forecast_end = f.forecast_end + f.stride_delta]

(* tuple(...) of the loop from the locals f on. *)
RECURSIVE RunLoop(_, _)
RunLoop(s, f) ==
    IF LoopCondition(f) THEN <<Current(f)>> \o RunLoop(s, UpdateState(s, f)) ELSE <<>>

(* Mutant: a zero-length range is let through. *)
RangeError_Strict(time_start, time_end) ==
    IF time_start > time_end THEN "ValueError: time_start must be before time_end." ELSE ""

RangeError(time_start, time_end) ==
    IF time_start >= time_end THEN "ValueError: time_start must be before time_end." ELSE ""

(* tuple(self._splits_from_period(time_start, time_end)), for a valid range. *)
splits_from_period(s, time_start, time_end) == RunLoop(s, EnterLoop(s, time_start, time_end))

(* ------------------------------------------------------ series helpers *)
RECURSIVE SeqMin(_)
SeqMin(q) ==
    IF Len(q) = 1 THEN q[1]
    ELSE LET m == SeqMin(Tail(q)) IN IF q[1] < m THEN q[1] ELSE m

RECURSIVE SeqMax(_)
SeqMax(q) ==
    IF Len(q) = 1 THEN q[1]
    ELSE LET m == SeqMax(Tail(q)) IN IF q[1] > m THEN q[1] ELSE m

(* x or default on an optional timestamp. *)
Or(x, default) == IF x = None THEN default ELSE Val(x)

(* Mutant: the mask takes the end of the window too. *)
Mask_ClosedEnd(series, lo, hi) == {i \in DOMAIN series : series[i] >= lo /\ series[i] <= hi}

(* The positions a boolean mask (series >= lo) & (series < hi) selects. *)
Mask(series, lo, hi) == {i \in DOMAIN series : series[i] >= lo /\ series[i] < hi}

(* The range TimeBasedSplit.split iterates over. *)
SplitRange(a) ==
    [time_start |-> Or(a.start_dt, SeqMin(Val(a.time_series))),
     time_end |-> Or(a.end_dt, SeqMax(Val(a.time_series)))]

(* What split yields for one SplitState: the train and forecast selections. *)
SplitArrays(series, st) ==
    [train |-> Mask(series, st.train_start, st.train_end),
     forecast |-> Mask(series, st.forecast_start, st.forecast_end),
     split |-> st]

(* Mutant: the count comes from the closed form of the forward sequence. *)
CountSplits_ForwardFormula(s, time_start, time_end) ==
    IF RangeError(time_start, time_end) # ""
    THEN [error |-> RangeError(time_start, time_end), n |-> None]
    ELSE LET room == time_end - time_start - train_delta(s) - gap_delta(s)
         IN [error |-> "",
             n |-> Some(IF room < 0 THEN 0 ELSE (room \div stride_delta(s)) + 1)]

(* len(tuple(self._splits_from_period(time_start, time_end))): the error raised
   (the empty string if none) and the number returned. *)
CountSplits(s, time_start, time_end) ==
    IF RangeError(time_start, time_end) # ""
    THEN [error |-> RangeError(time_start, time_end), n |-> None]
    ELSE [error |-> "", n |-> Some(Len(splits_from_period(s, time_start, time_end)))]

(* The outcome of n_splits_of. *)
n_splits_of(s, time_series, start_dt, end_dt) ==
    IF start_dt # None /\ end_dt # None
    THEN IF Val(start_dt) >= Val(end_dt)
         THEN [error |-> "ValueError: start_dt must be before end_dt.", n |-> None]
         ELSE CountSplits(s, Val(start_dt), Val(end_dt))
    ELSE IF time_series # None
    THEN CountSplits(s, SeqMin(Val(time_series)), SeqMax(Val(time_series)))
    ELSE [error |-> "ValueError: Either time_series or (start_dt, end_dt) pair must be provided.",
          n |-> None]

(* --------------------------------------- generators side by side *)
GeneratorIds == {1, 2}

(* A generator that has not been made: its position, the arguments of its
   call, its locals, what it has yielded and what it has raised. *)
NoGenerator ==
    [pc |-> "none", time_start |-> 0, time_end |-> 0, frame |-> NoFrame,
     emitted |-> <<>>, error |-> ""]

(* Mutant: the locals are kept in one place, that of the first generator. *)
ResumeFrame_Shared(gens, g) == gens[1].frame

(* The locals generator g resumes with: those of its own frame. *)
ResumeFrame(gens, g) == gens[g].frame

(* The generator gen arrives at the while loop with the locals f: it yields
   and suspends, or returns. *)
ArriveOf(gen, f) ==
    IF LoopCondition(f)
    THEN [gen EXCEPT !.frame = f, !.emitted = Append(@, Current(f)), !.pc = "suspended"]
    ELSE [gen EXCEPT !.frame = f, !.pc = "exhausted"]

(* next() on generator g of the instance s: from the first line if it was
   only created, from its yield otherwise. *)
NextOf(s, gens, g) ==
    IF gens[g].pc = "created"
    THEN IF RangeError(gens[g].time_start, gens[g].time_end) # ""
         THEN [gens[g] EXCEPT !.pc = "raised",
                              !.error = RangeError(gens[g].time_start, gens[g].time_end)]
         ELSE ArriveOf(gens[g], EnterLoop(s, gens[g].time_start, gens[g].time_end))
    ELSE ArriveOf(gens[g], UpdateState(s, ResumeFrame(gens, g)))

(* ---------------------------------------------------------- the actions *)
Init ==
    /\ pc = "start"
    /\ self = NoSelf
    /\ stride_arg = None
    /\ op = "none"
    /\ args = NoArgs
    /\ frame = NoFrame
    /\ emitted = <<>>
    /\ yielded = <<>>
    /\ count_args = NoArgs
    /\ n_splits = None
    /\ error = ""
    /\ generators = [g \in GeneratorIds |-> NoGenerator]

(* _CoreTimeBasedSplit.__init__ with the given arguments. *)
init(frequency, train_size, forecast_horizon, gap, stride, window, mode) ==
    LET s == NewSelf(frequency, train_size, forecast_horizon, gap, stride, window, mode)
    IN /\ self' = s
       /\ stride_arg' = stride
       /\ error' = validate_arguments(s)
       /\ pc' = IF validate_arguments(s) = "" THEN "ready" ELSE "config_error"
       /\ UNCHANGED <<op, args, frame, emitted, yielded, count_args, n_splits,
                      generators>>

(* A construction, valid or not. *)
Construct ==
    /\ pc = "start"
    /\ \E frequency \in FrequencyInputs, train_size \in SizeInputs, forecast_horizon \in SizeInputs,
          gap \in GapInputs, stride \in StrideInputs, window \in WindowInputs, mode \in ModeInputs :
          init(frequency, train_size, forecast_horizon, gap, stride, window, mode)

(* A construction with the sizes of the examples of the TimeBasedSplit
   docstring, or with sizes of one unit. *)
ConstructExample ==
    /\ pc = "start"
    /\ \E frequency \in frequency_values,
          train_size \in {1, ExampleTrainSize},
          forecast_horizon \in {1, ExampleForecastHorizon},
          gap \in {0, ExampleGap},
          stride \in {None, Some(ExampleStride)},
          window \in window_values, mode \in mode_values :
          init(frequency, train_size, forecast_horizon, gap, stride, window, mode)

(* A call of _splits_from_period(time_start, time_end): it makes the generator
   and runs none of its body. *)
CallSplitsFromPeriod ==
    /\ pc = "ready"
    /\ \E time_start \in StartInputs, time_end \in EndInputs :
          args' = [time_series |-> None, start_dt |-> Some(time_start), end_dt |-> Some(time_end)]
    /\ op' = "splits_from_period"
    /\ pc' = "created"
    /\ UNCHANGED <<self, stride_arg, frame, emitted, yielded, count_args, n_splits, error,
                   generators>>

(* A call of split(indexes, time_series=..., start_dt=..., end_dt=...) with one
   array of the sample positions, as long as the series: it makes the
   generator and runs none of its body. *)
CallSplit ==
    /\ pc = "ready"
    /\ \E time_series \in SeriesInputs,
          start_dt \in {None} \cup {Some(t) : t \in StartInputs},
          end_dt \in {None} \cup {Some(t) : t \in SplitEndInputs} :
          args' = [time_series |-> Some(time_series), start_dt |-> start_dt, end_dt |-> end_dt]
    /\ op' = "split"
    /\ pc' = "created"
    /\ UNCHANGED <<self, stride_arg, frame, emitted, yielded, count_args, n_splits, error,
                   generators>>

(* The range the running generator works on. *)
GeneratorRange ==
    IF op = "split" THEN SplitRange(args)
    ELSE [time_start |-> Val(args.start_dt), time_end |-> Val(args.end_dt)]

(* The generator arrives at the while loop with the locals f: it yields and
   suspends, or returns. *)
ArriveAtLoop(f) ==
    /\ frame' = f
    /\ IF LoopCondition(f)
       THEN /\ emitted' = Append(emitted, Current(f))
            /\ yielded' = IF op = "split"
                          THEN Append(yielded, SplitArrays(Val(args.time_series), Current(f)))
                          ELSE yielded
            /\ pc' = "suspended"
       ELSE /\ pc' = "exhausted"
            /\ UNCHANGED <<emitted, yielded>>

(* The first next() on the generator: the body runs from its first line to
   the first yield, to the end, or to the raise. *)
FirstNext ==
    /\ pc = "created"
    /\ LET r == GeneratorRange
       IN IF RangeError(r.time_start, r.time_end) # ""
          THEN /\ error' = RangeError(r.time_start, r.time_end)
               /\ pc' = "raised"
               /\ UNCHANGED <<frame, emitted, yielded>>
          ELSE /\ ArriveAtLoop(EnterLoop(self, r.time_start, r.time_end))
               /\ UNCHANGED error
    /\ UNCHANGED <<self, stride_arg, op, args, count_args, n_splits,
                   generators>>

(* A later next(): the body resumes after the yield, updates the state values
   and tests the loop condition again. *)
ResumeNext ==
    /\ pc = "suspended"
    /\ ArriveAtLoop(UpdateState(self, frame))
    /\ UNCHANGED <<self, stride_arg, op, args, count_args, n_splits, error,
                   generators>>

(* n_splits_of on the same instance, once the generator is finished, with the
   start_dt and end_dt of the generator's call and with its time_series or none. *)
NSplitsOf ==
    /\ pc \in {"exhausted", "raised"}
    /\ \E time_series \in {None, args.time_series} :
          LET r == n_splits_of(self, time_series, args.start_dt, args.end_dt)
          IN /\ n_splits' = r.n
             /\ error' = r.error
             /\ count_args' = [args EXCEPT !.time_series = time_series]
             /\ pc' = IF r.error = "" THEN "returned" ELSE "count_raised"
    /\ UNCHANGED <<self, stride_arg, op, args, frame, emitted, yielded,
                   generators>>

Next ==
    \/ Construct
    \/ CallSplitsFromPeriod
    \/ CallSplit
    \/ FirstNext
    \/ ResumeNext
    \/ NSplitsOf

Spec == Init /\ [][Next]_vars

(* The generator _splits_from_period on the instances of the docstring examples. *)
ExampleNext ==
    \/ ConstructExample
    \/ CallSplitsFromPeriod
    \/ FirstNext
    \/ ResumeNext

ExampleSpec == Init /\ [][ExampleNext]_vars

(* The generator _splits_from_period under a consumer that exhausts it, as
   tuple(...) does: each next() that can be made is made. *)
ExhaustNext ==
    \/ Construct
    \/ CallSplitsFromPeriod
    \/ FirstNext
    \/ ResumeNext

ExhaustSpec ==
    /\ Init
    /\ [][ExhaustNext]_vars
    /\ WF_vars(FirstNext)
    /\ WF_vars(ResumeNext)

(* ------------------------------------------------------------ the claims *)
Ordered(st) ==
    /\ st.train_start <= st.train_end
    /\ st.train_end <= st.forecast_start
    /\ st.forecast_start <= st.forecast_end

(* C1: every split emitted by _splits_from_period, for every valid
   configuration and every range with time_start < time_end, satisfies
   train_start <= train_end <= forecast_start <= forecast_end. *)
C1_SplitsOrdered == \A i \in 1..Len(emitted) : Ordered(emitted[i])

(* A backward expanding sequence with a gap has emitted two splits. *)
C1_Witness ==
    /\ Len(emitted) >= 2
    /\ self.mode_ = "backward"
    /\ self.window_ = "expanding"
    /\ self.gap_ > 0

(* C2: in every tuple split yields, the sample at position i is in the
   training selection iff train_start <= t < train_end and in the forecast
   selection iff forecast_start <= t < forecast_end, t its timestamp; no
   sample is in both and every training timestamp is strictly earlier than
   every forecast timestamp. *)
C2_HalfOpenMasks ==
    op = "split" =>
        \A k \in 1..Len(yielded) :
            LET y == yielded[k]
                ts == Val(args.time_series)
            IN /\ \A i \in DOMAIN ts :
                      /\ (i \in y.train) <=>
                            (y.split.train_start <= ts[i] /\ ts[i] < y.split.train_end)
                      /\ (i \in y.forecast) <=>
                            (y.split.forecast_start <= ts[i] /\ ts[i] < y.split.forecast_end)
               /\ y.train \cap y.forecast = {}
               /\ \A i \in y.train : \A j \in y.forecast : ts[i] < ts[j]

(* split has yielded a tuple with a non-empty training and a non-empty
   forecast selection; one sample lies exactly on forecast_start. *)
C2_Witness ==
    /\ op = "split"
    /\ \E k \in 1..Len(yielded) :
          /\ yielded[k].train # {}
          /\ yielded[k].forecast # {}
          /\ \E i \in yielded[k].forecast :
                Val(args.time_series)[i] = yielded[k].split.forecast_start

(* forecast_start of the k-th split of a forward sequence, k = 0, 1, ... *)
ForwardForecastStart(k) ==
    frame.time_start + train_delta(self) + gap_delta(self) + k * stride_delta(self)

(* C3: in forward mode the k-th emitted split (k = 0, 1, ...) has
   forecast_start = time_start + train_delta + gap_delta + k * stride_delta
   <= time_end and forecast_end = forecast_start + forecast_delta, unclamped;
   when the sequence ends, the split that would follow has
   forecast_start > time_end. *)
C3_ForwardExactlyWithinRange ==
    (self.mode_ = "forward" /\ pc \in {"suspended", "exhausted"}) =>
        /\ \A i \in 1..Len(emitted) :
              /\ emitted[i].forecast_start = ForwardForecastStart(i - 1)
              /\ emitted[i].forecast_start <= frame.time_end
              /\ emitted[i].forecast_end = emitted[i].forecast_start + forecast_delta(self)
        /\ pc = "exhausted" => ForwardForecastStart(Len(emitted)) > frame.time_end

(* A forward sequence has ended after two or more splits, the last of which
   starts its forecast window exactly at time_end and ends it beyond. *)
C3_Witness ==
    /\ pc = "exhausted"
    /\ self.mode_ = "forward"
    /\ Len(emitted) >= 2
    /\ emitted[Len(emitted)].forecast_start = frame.time_end
    /\ emitted[Len(emitted)].forecast_end > frame.time_end

(* C4: for a < b, n_splits_of(start_dt=a, end_dt=b) returns the number of
   splits obtained by exhausting _splits_from_period(a, b) on the same
   instance. *)
C4_CountEqualsGenerated ==
    (/\ pc \in {"returned", "count_raised"}
     /\ op = "splits_from_period"
     /\ Val(args.start_dt) < Val(args.end_dt)) =>
        /\ pc = "returned"
        /\ n_splits = Some(Len(emitted))

(* n_splits_of has returned after a backward sequence of two or more splits. *)
C4_Witness ==
    /\ pc = "returned"
    /\ op = "splits_from_period"
    /\ self.mode_ = "backward"
    /\ Len(emitted) >= 2
    /\ n_splits = Some(Len(emitted))

(* C5: for the same time_series, start_dt and end_dt (both, one or none
   supplied), n_splits_of returns the number of tuples split yields. *)
C5_CountEqualsSplit ==
    (/\ pc \in {"returned", "count_raised"}
     /\ op = "split"
     /\ count_args = args
     /\ RangeError(SplitRange(args).time_start, SplitRange(args).time_end) = "") =>
        /\ pc = "returned"
        /\ n_splits = Some(Len(yielded))

Fields == {"train_start", "train_end", "forecast_start", "forecast_end"}

(* C6 as stated: from each emitted split to the next, all four fields strictly
   increase in forward mode and strictly decrease in backward mode, rolling
   and expanding alike. *)
C6_StrictInAllFourFields ==
    \A i \in 1..(Len(emitted) - 1) : \A fld \in Fields :
        IF self.mode_ = "forward"
        THEN emitted[i][fld] < emitted[i + 1][fld]
        ELSE emitted[i][fld] > emitted[i + 1][fld]

(* C6 amended: from each emitted split to the next, train_end, forecast_start
   and forecast_end strictly increase in forward mode and strictly decrease in
   backward mode; train_start does the same when window = rolling and stays
   the same when window = expanding. *)
C6_StrictExceptPinnedTrainStart ==
    \A i \in 1..(Len(emitted) - 1) :
        /\ \A fld \in Fields \ {"train_start"} :
              IF self.mode_ = "forward"
              THEN emitted[i][fld] < emitted[i + 1][fld]
              ELSE emitted[i][fld] > emitted[i + 1][fld]
        /\ IF self.window_ = "expanding"
           THEN emitted[i].train_start = emitted[i + 1].train_start
           ELSE IF self.mode_ = "forward"
                THEN emitted[i].train_start < emitted[i + 1].train_start
                ELSE emitted[i].train_start > emitted[i + 1].train_start

(* A backward expanding sequence has emitted three splits. *)
C6_Witness ==
    /\ Len(emitted) >= 3
    /\ self.mode_ = "backward"
    /\ self.window_ = "expanding"

(* C7: with window = rolling, in both modes, every emitted split has
   train_end - train_start = train_delta. *)
C7_RollingConstantSpan ==
    self.window_ = "rolling" =>
        \A i \in 1..Len(emitted) :
            emitted[i].train_end - emitted[i].train_start = train_delta(self)

(* A backward rolling sequence has emitted three splits. *)
C7_Witness ==
    /\ self.window_ = "rolling"
    /\ self.mode_ = "backward"
    /\ Len(emitted) >= 3

(* C8: with window = expanding, train_start = time_start in every emitted
   split in both modes; in forward mode the span train_end - train_start is
   train_delta in the first split and grows by exactly stride_delta from each
   split to the next. *)
C8_ExpandingPinnedAndGrowing ==
    self.window_ = "expanding" =>
        /\ \A i \in 1..Len(emitted) : emitted[i].train_start = frame.time_start
        /\ self.mode_ = "forward" =>
              \A i \in 1..Len(emitted) :
                  emitted[i].train_end - emitted[i].train_start =
                      train_delta(self) + (i - 1) * stride_delta(self)

(* A forward expanding sequence from a time_start other than day 0 has
   emitted three splits. *)
C8_Witness ==
    /\ self.window_ = "expanding"
    /\ self.mode_ = "forward"
    /\ Len(emitted) >= 3
    /\ frame.time_start > 0

(* The instance built from the same arguments but stride = forecast_horizon. *)
ExplicitStride ==
    NewSelf(self.frequency_, self.train_size_, self.forecast_horizon_, self.gap_,
            Some(self.forecast_horizon_), self.window_, self.mode_)

(* C9: an instance constructed with stride = None or stride = 0 emits the
   same sequence of splits as one constructed with stride = forecast_horizon. *)
C9_DefaultStrideIsForecastHorizon ==
    (pc = "exhausted" /\ stride_arg \in {None, Some(0)}) =>
        emitted = splits_from_period(ExplicitStride, frame.time_start, frame.time_end)

(* An instance constructed with stride = 0 and train_size # forecast_horizon
   has emitted two or more splits and ended. *)
C9_Witness ==
    /\ pc = "exhausted"
    /\ stride_arg = Some(0)
    /\ self.train_size_ # self.forecast_horizon_
    /\ Len(emitted) >= 2

ForecastWindowsAt(t) ==
    {i \in 1..Len(emitted) : emitted[i].forecast_start <= t /\ t < emitted[i].forecast_end}

(* C10: with the default stride, consecutive forecast windows are adjacent
   (forward: next.forecast_start = previous.forecast_end; backward:
   next.forecast_end = previous.forecast_start) and every timestamp between
   the earliest forecast_start and the latest forecast_end lies in exactly one
   forecast window. *)
C10_DefaultStrideTilesForecasts ==
    (stride_arg \in {None, Some(0)} /\ Len(emitted) >= 1) =>
        /\ \A i \in 1..(Len(emitted) - 1) :
              IF self.mode_ = "forward"
              THEN emitted[i + 1].forecast_start = emitted[i].forecast_end
              ELSE emitted[i + 1].forecast_end = emitted[i].forecast_start
        /\ LET first == emitted[1]
               last == emitted[Len(emitted)]
               lo == IF self.mode_ = "forward" THEN first.forecast_start
                     ELSE last.forecast_start
               hi == IF self.mode_ = "forward" THEN last.forecast_end
                     ELSE first.forecast_end
           IN \A t \in lo..(hi - 1) : Cardinality(ForecastWindowsAt(t)) = 1

(* A backward sequence with the stride left unset, forecast_horizon = 2 and
   train_size = 1 has emitted three splits. *)
C10_Witness ==
    /\ stride_arg = None
    /\ self.mode_ = "backward"
    /\ self.forecast_horizon_ = 2
    /\ self.train_size_ = 1
    /\ Len(emitted) >= 3

(* C11: days, train_size = 4, forecast_horizon = 3, gap = 0, stride = None,
   rolling, forward, over day 0 to day 10: _splits_from_period emits exactly
   (0,4,4,7), (3,7,7,10), (6,10,10,13), in this order. *)
C11_Scenario ==
    /\ self = [frequency_ |-> "days", train_size_ |-> 4, forecast_horizon_ |-> 3, gap_ |-> 0,
               stride_ |-> 3, window_ |-> "rolling", mode_ |-> "forward"]
    /\ stride_arg = None
    /\ op = "splits_from_period"
    /\ args.start_dt = Some(0)
    /\ args.end_dt = Some(10)

C11_TenDaysThreeSplits ==
    (C11_Scenario /\ pc = "exhausted") =>
        emitted = <<SplitState(0, 4, 4, 7), SplitState(3, 7, 7, 10), SplitState(6, 10, 10, 13)>>

(* The generator of the scenario has been exhausted. *)
C11_Witness == C11_Scenario /\ pc = "exhausted" /\ Len(emitted) = 3

(* C12: in every emitted split, forecast_start - train_end = gap_delta and
   forecast_end - forecast_start = forecast_delta; train_size = 4,
   forecast_horizon = 3, gap = 2, stride = 2, rolling, forward from day 0
   emits (0,4,6,9) first; with gap = 0, forecast_start = train_end. *)
C12_GapAndHorizonExact ==
    /\ \A i \in 1..Len(emitted) :
          /\ emitted[i].forecast_start - emitted[i].train_end = gap_delta(self)
          /\ emitted[i].forecast_end - emitted[i].forecast_start = forecast_delta(self)
          /\ self.gap_ = 0 => emitted[i].forecast_start = emitted[i].train_end
    /\ (/\ self = [frequency_ |-> "days", train_size_ |-> 4, forecast_horizon_ |-> 3,
                   gap_ |-> 2, stride_ |-> 2, window_ |-> "rolling", mode_ |-> "forward"]
        /\ Len(emitted) >= 1
        /\ frame.time_start = 0) => emitted[1] = SplitState(0, 4, 6, 9)

(* The example with a gap has emitted its second split, two days later. *)
C12_Witness ==
    /\ self.gap_ = 2
    /\ self.window_ = "rolling"
    /\ self.mode_ = "forward"
    /\ Len(emitted) >= 2
    /\ emitted[1] = SplitState(0, 4, 6, 9)
    /\ emitted[2] = SplitState(2, 6, 8, 11)

InvalidRange(r) == r.time_start >= r.time_end

RangeErrors ==
    {"ValueError: time_start must be before time_end.",
     "ValueError: start_dt must be before end_dt."}

(* The range handed to n_splits_of is not a range: start_dt and end_dt are
   both given with start_dt >= end_dt, or neither is given and the series
   spans no time. *)
CountRangeInvalid ==
    \/ /\ count_args.start_dt # None
       /\ count_args.end_dt # None
       /\ Val(count_args.start_dt) >= Val(count_args.end_dt)
    \/ /\ count_args.start_dt = None
       /\ count_args.end_dt = None
       /\ count_args.time_series # None
       /\ SeqMin(Val(count_args.time_series)) >= SeqMax(Val(count_args.time_series))

(* C13: for a range with time_start = time_end or time_start > time_end,
   generation (_splits_from_period, split) and counting (n_splits_of) fail
   with a range error, and no split is emitted. *)
C13_InvalidRangeFails ==
    /\ (pc \in {"suspended", "exhausted", "raised"} /\ InvalidRange(GeneratorRange)) =>
          /\ pc = "raised"
          /\ error \in RangeErrors
          /\ emitted = <<>>
          /\ yielded = <<>>
    /\ (pc \in {"returned", "count_raised"} /\ CountRangeInvalid) =>
          /\ pc = "count_raised"
          /\ error \in RangeErrors
          /\ n_splits = None
          /\ emitted = <<>>

(* split and then n_splits_of have failed on the zero-length range
   start_dt = end_dt = day 1. *)
C13_Witness ==
    /\ pc = "count_raised"
    /\ op = "split"
    /\ args.start_dt = Some(1)
    /\ args.end_dt = Some(1)
    /\ count_args = args
    /\ error \in RangeErrors
    /\ emitted = <<>>

ValidConfiguration(s) ==
    /\ s.frequency_ \in frequency_values
    /\ s.window_ \in window_values
    /\ s.mode_ \in mode_values
    /\ s.train_size_ >= 1
    /\ s.forecast_horizon_ >= 1
    /\ s.gap_ >= 0
    /\ s.stride_ >= 1

ConfigurationErrors ==
    {"ValueError: frequency", "ValueError: window", "ValueError: mode",
     "ValueError: lower bounds"}

(* C14: construction fails with a configuration error exactly when frequency,
   window or mode is outside its set, train_size < 1, forecast_horizon < 1,
   gap < 0 or the effective stride < 1; a constructed instance satisfies all
   of these and no configuration error is raised after construction. *)
C14_ConfigurationValidatedOnce ==
    pc # "start" =>
        /\ (pc = "config_error") <=> ~ValidConfiguration(self)
        /\ pc = "config_error" => error \in ConfigurationErrors
        /\ pc # "config_error" => error \notin ConfigurationErrors

(* A construction has failed only because of a negative stride. *)
C14_Witness ==
    /\ pc = "config_error"
    /\ stride_arg = Some(-1)
    /\ self.frequency_ = "weeks"
    /\ self.train_size_ = 1
    /\ self.forecast_horizon_ = 1
    /\ self.gap_ = 0
    /\ self.window_ = "expanding"
    /\ self.mode_ = "backward"
    /\ error = "ValueError: lower bounds"

(* C15: for every valid configuration and every range with
   time_start < time_end, exhausting _splits_from_period terminates, and the
   number of splits is bounded by the range: at most one per day of the
   range. *)
C15_Terminates ==
    /\ [](pc \in {"suspended", "exhausted"} =>
            Len(emitted) <= frame.time_end - frame.time_start)
    /\ (pc = "created" /\ ~InvalidRange(GeneratorRange)) ~> (pc = "exhausted")

(* A backward expanding sequence has ended after four splits. *)
C15_Witness ==
    /\ pc = "exhausted"
    /\ self.mode_ = "backward"
    /\ self.window_ = "expanding"
    /\ Len(emitted) >= 4

(* The number of splits over the range of the running generator of the
   instance built like self but with these four arguments. *)
CountWith(train_size, forecast_horizon, gap, stride) ==
    Len(splits_from_period(
            NewSelf(self.frequency_, train_size, forecast_horizon, gap, stride,
                    self.window_, self.mode_),
            frame.time_start, frame.time_end))

(* C16: for a fixed range, window and mode, the number of emitted splits does
   not increase when train_size, forecast_horizon, gap or stride is increased,
   each alone. *)
C16_CountMonotone ==
    pc = "exhausted" =>
        /\ CountWith(self.train_size_ + 1, self.forecast_horizon_, self.gap_, stride_arg)
              <= Len(emitted)
        /\ CountWith(self.train_size_, self.forecast_horizon_ + 1, self.gap_, stride_arg)
              <= Len(emitted)
        /\ CountWith(self.train_size_, self.forecast_horizon_, self.gap_ + 1, stride_arg)
              <= Len(emitted)
        /\ CountWith(self.train_size_, self.forecast_horizon_, self.gap_, Some(self.stride_ + 1))
              <= Len(emitted)

(* A backward sequence of three splits has ended, and one more unit of
   forecast_horizon alone leaves fewer splits. *)
C16_Witness ==
    /\ pc = "exhausted"
    /\ self.mode_ = "backward"
    /\ stride_arg = Some(1)
    /\ Len(emitted) = 3
    /\ CountWith(self.train_size_, self.forecast_horizon_ + 1, self.gap_, stride_arg) = 2

(* C17: whenever the sequence is not empty, its first split is anchored at the
   range boundary: forward, it starts at time_start and lays train_delta,
   gap_delta and forecast_delta one after the other; backward, it ends at
   time_end and lays forecast_delta, gap_delta and (rolling) train_delta
   backwards, an expanding train_start being time_start. *)
C17_FirstSplitAnchored ==
    Len(emitted) >= 1 =>
        LET first == emitted[1]
            td == train_delta(self)
            fd == forecast_delta(self)
            gd == gap_delta(self)
        IN IF self.mode_ = "forward"
           THEN /\ first.train_start = frame.time_start
                /\ first.train_end = frame.time_start + td
                /\ first.forecast_start = first.train_end + gd
                /\ first.forecast_end = first.forecast_start + fd
           ELSE /\ first.forecast_end = frame.time_end
                /\ first.forecast_start = frame.time_end - fd
                /\ first.train_end = first.forecast_start - gd
                /\ first.train_start = IF self.window_ = "rolling"
                                       THEN first.train_end - td
                                       ELSE frame.time_start

(* A backward rolling generator with a gap has yielded its first split, which
   does not start at time_start. *)
C17_Witness ==
    /\ pc = "suspended"
    /\ Len(emitted) = 1
    /\ self.mode_ = "backward"
    /\ self.window_ = "rolling"
    /\ self.gap_ >= 1
    /\ emitted[1].train_start > frame.time_start

(* C18: from one emitted split to the next, train_end, forecast_start and
   forecast_end move by exactly stride_delta, forwards in forward mode and
   backwards in backward mode; train_start moves with them when rolling and
   stays when expanding; so forecast_start increases along a forward sequence
   and decreases along a backward one. *)
C18_ConsecutiveByStride ==
    \A i \in 1..(Len(emitted) - 1) :
        LET a == emitted[i]
            b == emitted[i + 1]
            d == IF self.mode_ = "forward" THEN stride_delta(self) ELSE -stride_delta(self)
        IN /\ b.train_end = a.train_end + d
           /\ b.forecast_start = a.forecast_start + d
           /\ b.forecast_end = a.forecast_end + d
           /\ b.train_start = IF self.window_ = "rolling" THEN a.train_start + d
                              ELSE a.train_start
           /\ self.mode_ = "forward" => a.forecast_start < b.forecast_start
           /\ self.mode_ = "backward" => a.forecast_start > b.forecast_start

(* A backward expanding sequence of at least three splits with a stride of
   two units has ended. *)
C18_Witness ==
    /\ pc = "exhausted"
    /\ self.mode_ = "backward"
    /\ self.window_ = "expanding"
    /\ self.stride_ = 2
    /\ Len(emitted) >= 3

(* C19: in backward mode every emitted split lies inside the range, and in
   every mode and window the training window of every emitted split spans at
   least train_delta. *)
C19_InsideRangeAndFullSpan ==
    \A i \in 1..Len(emitted) :
        /\ self.mode_ = "backward" =>
              /\ frame.time_start <= emitted[i].train_start
              /\ emitted[i].forecast_end <= frame.time_end
        /\ emitted[i].train_end - emitted[i].train_start >= train_delta(self)

(* A backward expanding sequence has stopped right after the split whose
   training window spans exactly train_delta: one more step would be shorter. *)
C19_Witness ==
    /\ pc = "exhausted"
    /\ self.mode_ = "backward"
    /\ self.window_ = "expanding"
    /\ Len(emitted) >= 2
    /\ emitted[Len(emitted)].train_end - emitted[Len(emitted)].train_start = train_delta(self)
    /\ frame.train_end - frame.train_start < train_delta(self)

(* C20, as stated: once _splits_from_period or split has been called on a
   range with time_start >= time_end, the range error has been reported,
   before any element is requested. *)
C20_ReportedByTheCall ==
    (pc = "created" /\ InvalidRange(GeneratorRange)) => error \in RangeErrors

(* C20, amended: the call itself reports nothing; the first request for an
   element of a generator over a range with time_start >= time_end raises the
   range error, and nothing has been or is emitted. *)
C20_ReportedAtFirstNext ==
    /\ [](pc = "created" => (error = "" /\ emitted = <<>> /\ yielded = <<>>))
    /\ [][(pc = "created" /\ InvalidRange(GeneratorRange)) =>
            /\ pc' = "raised"
            /\ error' \in RangeErrors
            /\ emitted' = <<>>
            /\ yielded' = <<>>]_vars

(* The first next() on _splits_from_period over a zero-length range has
   raised. *)
C20_Witness ==
    /\ pc = "raised"
    /\ op = "splits_from_period"
    /\ GeneratorRange.time_start = GeneratorRange.time_end
    /\ error \in RangeErrors
    /\ emitted = <<>>

(* The splits over the range of the running generator of the instance built
   like self but with the other window. *)
OtherWindowSplits ==
    splits_from_period(
        NewSelf(self.frequency_, self.train_size_, self.forecast_horizon_, self.gap_,
                stride_arg,
                IF self.window_ = "rolling" THEN "expanding" ELSE "rolling",
                self.mode_),
        frame.time_start, frame.time_end)

(* C22: with the same frequency, sizes, mode and range, the rolling and the
   expanding configuration emit the same number of splits, which agree at
   every position on train_end, forecast_start and forecast_end. *)
C22_WindowsAgreeButTrainStart ==
    pc = "exhausted" =>
        /\ Len(OtherWindowSplits) = Len(emitted)
        /\ \A i \in 1..Len(emitted) :
              /\ OtherWindowSplits[i].train_end = emitted[i].train_end
              /\ OtherWindowSplits[i].forecast_start = emitted[i].forecast_start
              /\ OtherWindowSplits[i].forecast_end = emitted[i].forecast_end

(* A backward sequence of at least three splits has ended, and the other
   window gives another train_start in each of them but the last. *)
C22_Witness ==
    /\ pc = "exhausted"
    /\ self.mode_ = "backward"
    /\ Len(emitted) >= 3
    /\ OtherWindowSplits[1].train_start # emitted[1].train_start
    /\ OtherWindowSplits[2].train_start # emitted[2].train_start

(* ------------------------------------------------- TimeBasedCVSplitter *)
(* Mutant: the count is taken from n_splits_of. *)
compute_n_splits_ViaNSplitsOf(s, a) == n_splits_of(s, a.time_series, a.start_dt, a.end_dt)

(* _compute_n_splits on the splitter s and the attributes time_series_,
   start_dt_ and end_dt_ held in a: the error raised (the empty string if
   none) and the number returned. *)
compute_n_splits(s, a) ==
    CountSplits(s, Or(a.start_dt, SeqMin(Val(a.time_series))),
                   Or(a.end_dt, SeqMax(Val(a.time_series))))

(* TimeBasedCVSplitter.__init__: it builds the inner TimeBasedSplit, keeps
   time_series, start_dt and end_dt and computes n_splits, here held by the
   variable n_splits; a configuration or range error leaves no object. *)
ConstructCVSplitter ==
    /\ pc = "start"
    /\ \E frequency \in FrequencyInputs, train_size \in SizeInputs, forecast_horizon \in SizeInputs,
          gap \in GapInputs, stride \in StrideInputs, window \in WindowInputs, mode \in ModeInputs,
          time_series \in SeriesInputs,
          start_dt \in {None} \cup {Some(t) : t \in StartInputs},
          end_dt \in {None} \cup {Some(t) : t \in SplitEndInputs} :
          LET s == NewSelf(frequency, train_size, forecast_horizon, gap, stride, window, mode)
              a == [time_series |-> Some(time_series), start_dt |-> start_dt, end_dt |-> end_dt]
          IN /\ self' = s
             /\ stride_arg' = stride
             /\ IF validate_arguments(s) # ""
                THEN /\ error' = validate_arguments(s)
                     /\ pc' = "config_error"
                     /\ UNCHANGED <<args, n_splits>>
                ELSE /\ args' = a
                     /\ n_splits' = compute_n_splits(s, a).n
                     /\ error' = compute_n_splits(s, a).error
                     /\ pc' = IF compute_n_splits(s, a).error = "" THEN "cv_ready" ELSE "cv_raised"
    /\ UNCHANGED <<op, frame, emitted, yielded, count_args,
                   generators>>

(* A call of _iter_test_indices without X, y or groups: it makes the generator
   over splitter.split(arange(size_), time_series=time_series_,
   start_dt=start_dt_, end_dt=end_dt_) and runs none of its body; each element
   is the forecast selection of what split yields. *)
IterTestIndices ==
    /\ pc = "cv_ready"
    /\ op' = "split"
    /\ pc' = "created"
    /\ UNCHANGED <<self, stride_arg, args, frame, emitted, yielded, count_args, n_splits, error,
                   generators>>

(* get_n_splits without X, y or groups returns the attribute n_splits. *)
get_n_splits == n_splits

CVSplitterNext ==
    \/ ConstructCVSplitter
    \/ IterTestIndices
    \/ FirstNext
    \/ ResumeNext

CVSplitterSpec == Init /\ [][CVSplitterNext]_vars

(* C23: for a TimeBasedCVSplitter the constructor accepted, whatever of
   time_series, start_dt and end_dt it was given, get_n_splits is the number of
   test-index arrays _iter_test_indices yields: the iteration raises nothing,
   never yields more, and ends with exactly that many. *)
C23_GetNSplitsEqualsIterated ==
    /\ pc # "raised"
    /\ pc = "suspended" => Len(yielded) <= Val(get_n_splits)
    /\ pc = "exhausted" => get_n_splits = Some(Len(yielded))

(* A splitter given a start_dt before the first sample and no end_dt has
   yielded all its test-index arrays, at least three. *)
C23_Witness ==
    /\ pc = "exhausted"
    /\ args.start_dt # None
    /\ args.end_dt = None
    /\ Val(args.start_dt) < SeqMin(Val(args.time_series))
    /\ Len(yielded) >= 3
    /\ get_n_splits = Some(Len(yielded))

(* ------------------------------------ two generators of one instance *)
(* A call of _splits_from_period(time_start, time_end) that makes generator g;
   the instance stays ready for further calls. *)
CallOn(g) ==
    /\ pc = "ready"
    /\ generators[g].pc = "none"
    /\ \E time_start \in StartInputs, time_end \in SplitEndInputs :
          generators' = [generators EXCEPT ![g] =
                            [NoGenerator EXCEPT !.pc = "created",
                                                !.time_start = time_start,
                                                !.time_end = time_end]]
    /\ UNCHANGED <<pc, self, stride_arg, op, args, frame, emitted, yielded, count_args,
                   n_splits, error>>

(* next() on generator g, whatever the other generator is doing. *)
NextOn(g) ==
    /\ pc = "ready"
    /\ generators[g].pc \in {"created", "suspended"}
    /\ generators' = [generators EXCEPT ![g] = NextOf(self, generators, g)]
    /\ UNCHANGED <<pc, self, stride_arg, op, args, frame, emitted, yielded, count_args,
                   n_splits, error>>

InterleavedNext ==
    \/ ConstructExample
    \/ \E g \in GeneratorIds : CallOn(g)
    \/ \E g \in GeneratorIds : NextOn(g)

InterleavedSpec == Init /\ [][InterleavedNext]_vars

(* What generator g yields when it is consumed alone, from start to end. *)
AloneSplits(g) ==
    splits_from_period(self, generators[g].time_start, generators[g].time_end)

IsPrefix(p, q) ==
    /\ Len(p) <= Len(q)
    /\ \A i \in 1..Len(p) : p[i] = q[i]

(* C21: generation never modifies the configuration of the instance, and
   under any interleaving of next() on two generators of one instance, over
   the same range or not, each has yielded a prefix of what it yields alone,
   and all of it, in the same order, once it has ended. *)
C21_GeneratorsIndependent ==
    /\ [](\A g \in GeneratorIds :
            /\ generators[g].pc = "suspended" =>
                  /\ Len(generators[g].emitted) >= 1
                  /\ IsPrefix(generators[g].emitted, AloneSplits(g))
            /\ generators[g].pc = "exhausted" => generators[g].emitted = AloneSplits(g)
            /\ generators[g].pc = "raised" => generators[g].emitted = <<>>)
    /\ [][pc = "ready" => (self' = self /\ stride_arg' = stride_arg)]_vars

(* Two generators over different ranges are both suspended in mid-sequence,
   the first after three splits and the second after two. *)
C21_Witness ==
    /\ generators[1].pc = "suspended"
    /\ generators[2].pc = "suspended"
    /\ generators[1].time_end # generators[2].time_end
    /\ Len(generators[1].emitted) = 3
    /\ Len(generators[2].emitted) = 2
    /\ Len(AloneSplits(1)) > 3
    /\ Len(AloneSplits(2)) > 2

====
